---- MODULE Spec2Model ----
(***************************************************************************)
(* SQPInternal::evaluate (nonlinear_programming/sqp_internal.cpp) as a     *)
(* state machine.  One action per stage of the main optimization loop.     *)
(*                                                                         *)
(* Reals (C++ double) are exact rationals <<num, den>> with den > 0 and    *)
(* gcd(num, den) = 1; rounding of double arithmetic is not modelled.       *)
(* <<-1,0>> and <<1,0>> stand for -inf and +inf (they are only stored).    *)
(*                                                                         *)
(* The evaluators F_ and G_ are user functions: F_ is a separable          *)
(* quadratic and G_ an affine map whose coefficients are part of the       *)
(* problem instance drawn in Init.  The QP solver and the callback are     *)
(* black boxes: their results are drawn from small sets at each call.      *)
(* The exact Hessian H_ is the Hessian of the Lagrangian of the instance.   *)
(* The input slots of F_, G_, H_ and J_ are sequences of vectors (slot i   *)
(* of the code is element i+1), empty for a null function.                 *)
(*                                                                         *)
(* Spec runs the main loop under the default Hessian options, SpecHessian  *)
(* runs it under both values of hessian_approximation, and SpecDamping and *)
(* SpecRegularizing apply the limited-memory update and the regularization *)
(* of the exact Hessian to drawn inputs.                                   *)
(***************************************************************************)
EXTENDS Integers, Sequences, FiniteSets, TLC

\* ---------------------------------------------------------------- bounds
\* Largest value of the option "maxiter" that is explored; it also caps
\* it_counter in runs that the cap of the code never stops (maxiter = 0).
MaxIter == 3
\* Largest value of the option "maxiter_ls" that is explored.
MaxLs == 2
\* Largest value of the option "merit_memory" that is explored.
MaxMem == 2
\* Largest value of the option "lbfgs_memory" that is explored.
MaxLbfgs == 2
\* Curvature pairs of the damping runs are multiples of 1/2 up to MaxCurv/2.
MaxCurv == 6
\* Entries of the Hessians of the regularization runs lie in -MaxEntry..MaxEntry.
MaxEntry == 2

\* ------------------------------------------------------ double arithmetic
AbsInt(i) == IF i < 0 THEN -i ELSE i

RECURSIVE GCD(_, _)
GCD(a, b) == IF b = 0 THEN a ELSE GCD(b, a % b)

LCM(a, b) == (a \div GCD(a, b)) * b

\* The rational n/d (d > 0) in lowest terms.
Rat(n, d) == LET g == GCD(AbsInt(n), d) IN <<n \div g, d \div g>>

R(i) == <<i, 1>>
Zero == <<0, 1>>
One == <<1, 1>>

RAdd(a, b) == LET l == LCM(a[2], b[2])
              IN  Rat(a[1] * (l \div a[2]) + b[1] * (l \div b[2]), l)
RNeg(a) == <<-a[1], a[2]>>
RSub(a, b) == RAdd(a, RNeg(b))
RMul(a, b) == LET g1 == GCD(AbsInt(a[1]), b[2])
                  g2 == GCD(AbsInt(b[1]), a[2])
              IN  <<(a[1] \div g1) * (b[1] \div g2), (a[2] \div g2) * (b[2] \div g1)>>
\* a / b for b # 0.
RDiv(a, b) == IF b[1] < 0 THEN Rat(-(a[1] * b[2]), -(a[2] * b[1]))
                          ELSE Rat(a[1] * b[2], a[2] * b[1])
RLt(a, b) == LET l == LCM(a[2], b[2])
             IN  a[1] * (l \div a[2]) < b[1] * (l \div b[2])
RLe(a, b) == ~RLt(b, a)
RGt(a, b) == RLt(b, a)
\* fabs
fabs(a) == <<AbsInt(a[1]), a[2]>>

MinusInf == <<-1, 0>>
PlusInf == <<1, 0>>

\* Sum of the elements of a sequence of reals, front to back.
RECURSIVE RSum(_)
RSum(s) == IF s = <<>> THEN Zero ELSE RAdd(s[1], RSum(Tail(s)))

\* inner_prod of two vectors of the same length.
InnerProd(u, v) == RSum([i \in 1..Len(u) |-> RMul(u[i], v[i])])

ZeroVec(k) == [i \in 1..k |-> Zero]
IntVec(s) == [i \in 1..Len(s) |-> R(s[i])]

\* Dense matrices are sequences of rows.
\* DMatrix::eye
eye(n) == [i \in 1..n |-> [j \in 1..n |-> IF i = j THEN One ELSE Zero]]
\* diag(diag(B)): the diagonal of B as a matrix.
diagdiag(B) == [i \in 1..Len(B) |-> [j \in 1..Len(B) |-> IF i = j THEN B[i][i] ELSE Zero]]
\* mul(B, v) for a column vector v.
mul(B, v) == [i \in 1..Len(B) |-> InnerProd(B[i], v)]
\* The difference of two vectors.
VecSub(u, v) == [i \in 1..Len(u) |-> RSub(u[i], v[i])]

\* --------------------------------------------------------------- options
\* Option values of the explored configurations (addOption, init()).
c1_ == <<1, 4>>
beta_ == <<1, 2>>
tol_pr_ == <<1, 1000000>>
tol_du_ == <<1, 1000000>>
\* The factor 1.01 of the penalty update.
SigmaFactor == <<101, 100>>
\* Start value of the maximum search over the merit window.  The code uses
\* -1E20, beyond the integer range of the checker; every merit value the
\* instances below produce lies above this floor.
MeritFloor == <<-1000000, 1>>

\* ------------------------------------------------------ problem instances
\* An NLP instance: dimensions, bounds, start point, the coefficients of
\* F_(x) = sum_i qf[i]*x[i]^2 + bf[i]*x[i]  and  G_(x)[j] = Ag[j].x + dg[j],
\* whether G_ is a null function, and the triples (p, mu_qp, mu_x_qp) the
\* QP solver may return.
Problems == {
    \* no constraint function; the start point lies below the lower bound
    [name |-> "unconstrained", n_ |-> 1, m_ |-> 0, G_isNull |-> TRUE,
     lbx |-> IntVec(<<2>>), ubx |-> IntVec(<<3>>),
     lbg |-> <<>>, ubg |-> <<>>, x_init |-> IntVec(<<0>>),
     qf |-> <<1>>, bf |-> <<-2>>, Ag |-> <<>>, dg |-> <<>>,
     qp_out |-> { <<IntVec(<<2>>), <<>>, IntVec(<<0>>)>>,
                  <<IntVec(<<1>>), <<>>, IntVec(<<0>>)>>,
                  <<IntVec(<<4>>), <<>>, IntVec(<<-1>>)>> }],
    \* a constraint function with no outputs
    [name |-> "emptyG", n_ |-> 1, m_ |-> 0, G_isNull |-> FALSE,
     lbx |-> IntVec(<<2>>), ubx |-> IntVec(<<3>>),
     lbg |-> <<>>, ubg |-> <<>>, x_init |-> IntVec(<<0>>),
     qf |-> <<1>>, bf |-> <<-2>>, Ag |-> <<>>, dg |-> <<>>,
     qp_out |-> { <<IntVec(<<2>>), <<>>, IntVec(<<0>>)>>,
                  <<IntVec(<<1>>), <<>>, IntVec(<<0>>)>> }],
    \* one equality constraint x1 + x2 = 1, x2 fixed at 0
    [name |-> "equality", n_ |-> 2, m_ |-> 1, G_isNull |-> FALSE,
     lbx |-> IntVec(<<-2, 0>>), ubx |-> IntVec(<<2, 0>>),
     lbg |-> IntVec(<<0>>), ubg |-> IntVec(<<0>>), x_init |-> IntVec(<<0, 0>>),
     qf |-> <<1, 1>>, bf |-> <<0, 0>>, Ag |-> << <<1, 1>> >>, dg |-> <<-1>>,
     qp_out |-> { <<IntVec(<<1, 0>>), IntVec(<<-2>>), IntVec(<<0, 2>>)>>,
                  <<IntVec(<<2, 0>>), IntVec(<<-2>>), IntVec(<<0, 2>>)>>,
                  <<IntVec(<<1, 1>>), IntVec(<<1>>), IntVec(<<0, 0>>)>> }],
    \* two inequality constraints
    [name |-> "inequalities", n_ |-> 1, m_ |-> 2, G_isNull |-> FALSE,
     lbx |-> IntVec(<<-1>>), ubx |-> IntVec(<<4>>),
     lbg |-> IntVec(<<1, 0>>), ubg |-> IntVec(<<3, 5>>), x_init |-> IntVec(<<0>>),
     qf |-> <<1>>, bf |-> <<-4>>, Ag |-> << <<1>>, <<2>> >>, dg |-> <<0, -1>>,
     qp_out |-> { <<IntVec(<<2>>), IntVec(<<0, 0>>), IntVec(<<0>>)>>,
                  <<IntVec(<<1>>), IntVec(<<1, -3>>), IntVec(<<0>>)>>,
                  <<IntVec(<<4>>), IntVec(<<-2, 1>>), IntVec(<<1>>)>> }]
  }

\* ------------------------------------------------------------ evaluators
\* F_.evaluate(): the objective value at x.
F_value(nlp, x) ==
    RSum([i \in 1..nlp.n_ |->
            RAdd(RMul(R(nlp.qf[i]), RMul(x[i], x[i])), RMul(R(nlp.bf[i]), x[i]))])

\* F_.evaluate(0,1) with adjoint seed 1.0: the gradient of the objective at x.
F_adjSens(nlp, x) ==
    [i \in 1..nlp.n_ |-> RAdd(RMul(R(2 * nlp.qf[i]), x[i]), R(nlp.bf[i]))]

\* F_.evaluate(1,0) with forward seed p: the directional derivative at x.
F_fwdSens(nlp, x, p) == InnerProd(F_adjSens(nlp, x), p)

\* G_.evaluate(): the constraint values at x (empty when G_ is null).
G_value(nlp, x) ==
    [j \in 1..nlp.m_ |-> RAdd(InnerProd(IntVec(nlp.Ag[j]), x), R(nlp.dg[j]))]

\* G_.evaluate(0,1) with adjoint seed mu: J(x)^T mu.
G_adjSens(nlp, mu) ==
    [i \in 1..nlp.n_ |-> RSum([j \in 1..nlp.m_ |-> RMul(R(nlp.Ag[j][i]), mu[j])])]

\* -------------------------------------------------- pieces of the driver
\* Variant: the bounds of the NLP passed through unshifted.
ShiftBoundsRaw(b, x) == b

\* QP bounds: transform(b, x, minus) and input(NLP_LBG)-gk.
ShiftBounds(b, x) == [i \in 1..Len(b) |-> RSub(b[i], x[i])]

\* The slots of the QP solver the driver writes before a solve.
QPSlotsWritten(m, p) ==
    {"H", "G", "LBX", "UBX"}
      \cup (IF Len(p) > 0 THEN {"X_INIT"} ELSE {})
      \cup (IF m > 0 THEN {"A", "LBA", "UBA"} ELSE {})

\* Variant: the penalty recomputed from the current multipliers alone.
RECURSIVE PenaltyFromScratch(_, _)
PenaltyFromScratch(sigma, mu_qp) ==
    IF mu_qp = <<>> THEN Zero
    ELSE LET rest == PenaltyFromScratch(sigma, Tail(mu_qp))
         IN  IF RGt(RMul(fabs(mu_qp[1]), SigmaFactor), rest)
                THEN RMul(fabs(mu_qp[1]), SigmaFactor) ELSE rest

\* Penalty parameter of the merit function: the loop over j = 0..m-1.
RECURSIVE PenaltyUpdate(_, _)
PenaltyUpdate(sigma, mu_qp) ==
    IF mu_qp = <<>> THEN sigma
    ELSE PenaltyUpdate(IF RGt(fabs(mu_qp[1]), sigma)
                          THEN RMul(fabs(mu_qp[1]), SigmaFactor)
                          ELSE sigma,
                       Tail(mu_qp))

\* L1 infeasibility of the constraint values g (merit function).
L1Infeas(lbg, ubg, g) ==
    RSum([j \in 1..Len(lbg) |->
            IF RGt(RSub(lbg[j], g[j]), Zero) THEN RSub(lbg[j], g[j])
            ELSE IF RGt(RSub(g[j], ubg[j]), Zero) THEN RSub(g[j], ubg[j])
            ELSE Zero])

\* Variant: the newest value is dropped instead of the oldest (pop_back).
MeritPushPopBack(mem, L1merit, memsize) ==
    LET pushed == Append(mem, L1merit)
    IN  IF Len(pushed) > memsize THEN SubSeq(pushed, 1, memsize) ELSE pushed

\* merit_mem.push_back(L1merit); pop_front() when larger than merit_memsize_.
MeritPush(mem, L1merit, memsize) ==
    LET pushed == Append(mem, L1merit)
    IN  IF Len(pushed) > memsize THEN Tail(pushed) ELSE pushed

\* Maximal merit function value so far: the loop over merit_mem.
RECURSIVE MeritMaxFrom(_, _)
MeritMaxFrom(meritmax, mem) ==
    IF mem = <<>> THEN meritmax
    ELSE MeritMaxFrom(IF RGt(mem[1], meritmax) THEN mem[1] ELSE meritmax, Tail(mem))

MeritMax(mem) == MeritMaxFrom(MeritFloor, mem)

\* The acceptance test of the line search.
ArmijoAccept(L1merit_cand, meritmax, t, L1dir) ==
    RLe(L1merit_cand, RAdd(meritmax, RMul(RMul(t, c1_), L1dir)))

\* Candidate point x + t*p.
Candidate(x, t, p) == [i \in 1..Len(x) |-> RAdd(x[i], RMul(t, p[i]))]

\* Variant: an exhausted line search ends the run.
LsNextGiveUp(accept, ls_counter, maxiter_ls) ==
    IF accept THEN "Committing"
    ELSE IF ls_counter = maxiter_ls THEN "Terminated"
    ELSE "LineSearching"

\* Where the line-search loop goes after a trial: left on acceptance, left
\* when ls_counter == maxiter_ls_, repeated otherwise.
LsNext(accept, ls_counter, maxiter_ls) ==
    IF accept THEN "Committing"
    ELSE IF ls_counter = maxiter_ls THEN "Committing"
    ELSE "LineSearching"

\* Multiplier update t*mu_qp + (1-t)*mu.
Blend(t, mu_qp, mu) ==
    [i \in 1..Len(mu) |-> RAdd(RMul(t, mu_qp[i]), RMul(RSub(One, t), mu[i]))]

\* Primal infeasibility of the nonlinear constraints.  The equality test
\* ub - lb < 1E-20 is ub - lb <= 0 on the values of the instances.
PrInfG(lbg, ubg, g) ==
    RSum([j \in 1..Len(lbg) |->
            IF RLt(RSub(ubg[j], lbg[j]), Zero) \/ RSub(ubg[j], lbg[j]) = Zero
               THEN fabs(RSub(g[j], lbg[j]))
            ELSE IF RGt(RSub(lbg[j], g[j]), Zero) THEN RSub(lbg[j], g[j])
            ELSE IF RGt(RSub(g[j], ubg[j]), Zero) THEN RSub(g[j], ubg[j])
            ELSE Zero])

\* Primal infeasibility of the bound constraints.
PrInfX(lbx, ubx, x) ==
    RSum([j \in 1..Len(lbx) |->
            IF RLt(RSub(ubx[j], lbx[j]), Zero) \/ RSub(ubx[j], lbx[j]) = Zero
               THEN fabs(RSub(x[j], lbx[j]))
            ELSE IF RGt(RSub(lbx[j], x[j]), Zero) THEN RSub(lbx[j], x[j])
            ELSE IF RGt(RSub(x[j], ubx[j]), Zero) THEN RSub(x[j], ubx[j])
            ELSE Zero])

\* pr_inf = pr_infG + pr_infx; both sums are only formed when G_ is not null.
PrInf(G_isNull, lbg, ubg, g, lbx, ubx, x) ==
    IF ~G_isNull THEN RAdd(PrInfG(lbg, ubg, g), PrInfX(lbx, ubx, x)) ELSE Zero

\* 1-norm of a vector.
Norm1(v) == RSum([i \in 1..Len(v) |-> fabs(v[i])])

\* The line-search column of the log: 'F' or ' '.
LsSuccess(ls_counter, maxiter_ls) == IF ls_counter = maxiter_ls THEN "F" ELSE " "

\* Variant: the iteration cap is tested before the convergence criteria.
DecideCapFirst(cb_ret, pr_inf, gLag_norm1, it_counter, maxiter) ==
    IF cb_ret THEN "aborted by callback"
    ELSE IF it_counter = maxiter THEN "Maximum number of iterations reached"
    ELSE IF RLt(pr_inf, tol_pr_) /\ RLt(gLag_norm1, tol_du_) THEN "Convergence achieved"
    ELSE "continue"

\* What happens at the end of an iteration, in the order of the code:
\* callback, convergence criteria, iteration cap, next iteration.
Decide(cb_ret, pr_inf, gLag_norm1, it_counter, maxiter) ==
    IF cb_ret THEN "aborted by callback"
    ELSE IF RLt(pr_inf, tol_pr_) /\ RLt(gLag_norm1, tol_du_) THEN "Convergence achieved"
    ELSE IF it_counter = maxiter THEN "Maximum number of iterations reached"
    ELSE "continue"

\* Variant: the number of increments of it_counter is reported.
SaveStatsZeroBased(it_counter) == it_counter - 1

\* Save statistics: the value stored as iter_count.
SaveStats(it_counter) == it_counter

\* --------------------------------------------------------------- Hessian
\* H_.evaluate(): the Hessian of the Lagrangian of the instance.  F_ is a
\* separable quadratic and G_ is affine, so it is diag(2*qf) at every (x, mu).
H_value(nlp, x, mu) ==
    [i \in 1..nlp.n_ |-> [j \in 1..nlp.n_ |-> IF i = j THEN R(2 * nlp.qf[i]) ELSE Zero]]

\* The Gershgorin radius of row i: the sum of |B[i][j]| over j # i.
Radius(B, i) == RSum([j \in 1..Len(B[i]) |-> IF i # j THEN fabs(B[i][j]) ELSE Zero])

\* The loop over the rows i, i+1, ...: reg_param becomes the smallest
\* Gershgorin lower bound B[i][i] - radius that lies below it.
RECURSIVE RegParam(_, _, _)
RegParam(B, i, reg_param) ==
    IF i > Len(B) THEN reg_param
    ELSE LET mineig == RSub(B[i][i], Radius(B, i))
         IN  RegParam(B, i + 1, IF RLt(mineig, reg_param) THEN mineig ELSE reg_param)

\* B + d * eye
AddDiag(B, d) ==
    [i \in 1..Len(B) |-> [j \in 1..Len(B[i]) |-> IF i = j THEN RAdd(B[i][j], d) ELSE B[i][j]]]

\* Variant: the shift is added with the sign of reg_param.
RegularizeSignError(B) ==
    LET reg_param == RegParam(B, 1, Zero)
    IN  IF RLt(reg_param, Zero) THEN AddDiag(B, reg_param) ELSE AddDiag(B, Zero)

\* Regularization of the exact Hessian: reg_param starts at 0, and the
\* matrix is shifted by -reg_param when it is negative, by 0 otherwise.
Regularize(B) ==
    LET reg_param == RegParam(B, 1, Zero)
    IN  IF RLt(reg_param, Zero) THEN AddDiag(B, RNeg(reg_param)) ELSE AddDiag(B, Zero)

\* Variant: the update is never damped.
PowellOmegaUndamped(sy, sBs) == One

\* The damping factor omega from s'y and s'Bs.
PowellOmega(sy, sBs) ==
    IF RLt(sy, RMul(<<1, 5>>, sBs))
        THEN RDiv(RMul(<<4, 5>>, sBs), RSub(sBs, sy))
        ELSE One

\* Variant: the iterations are counted from 0.
IsRestartZeroBased(it_counter, lbfgs_memory) == (it_counter - 1) % lbfgs_memory = 0

\* Whether the approximation is reset to its diagonal in this iteration.
IsRestart(it_counter, lbfgs_memory) == it_counter % lbfgs_memory = 0

\* The limited-memory branch: restart, sk, yk, qk, damping of yk, rank-2
\* update.  The result holds the new Bk and the locals of the branch.
Lbfgs(B, it_counter, lbfgs_memory, x, x_old, gLag, gLag_old) ==
    LET B0 == IF IsRestart(it_counter, lbfgs_memory) THEN diagdiag(B) ELSE B
        s == VecSub(x, x_old)
        y == VecSub(gLag, gLag_old)
        q == mul(B0, s)
        om == PowellOmega(InnerProd(y, s), InnerProd(s, q))
        yd == [i \in 1..Len(y) |-> RAdd(RMul(om, y[i]), RMul(RSub(One, om), q[i]))]
        theta == RDiv(One, InnerProd(s, yd))
        phi == RDiv(One, InnerProd(q, s))
    IN  [Bk |-> [i \in 1..Len(B0) |-> [j \in 1..Len(B0) |->
                    RSub(RAdd(B0[i][j], RMul(theta, RMul(yd[i], yd[j]))),
                         RMul(phi, RMul(q[i], q[j])))]],
         sk |-> s, yk |-> yd, qk |-> q, omega |-> om]

\* gLag_old_bfgs: the gradient of the Lagrangian at x_old_ with the new
\* multipliers.
GradLagOld(nlp, x_old, mu, mu_x) ==
    LET gradF == F_adjSens(nlp, x_old)
        withG == IF ~nlp.G_isNull
                    THEN [i \in 1..nlp.n_ |-> RAdd(gradF[i], G_adjSens(nlp, mu)[i])]
                    ELSE gradF
    IN  [i \in 1..nlp.n_ |-> RAdd(withG[i], mu_x[i])]

\* ----------------------------------------------------------- input slots
\* setInput(val, slot) on the input slots inp of an evaluator.
SetInput(inp, val, slot) == [inp EXCEPT ![slot + 1] = val]

\* The value of the solver input NLP_P.
NLP_P == IntVec(<<-9>>)

\* Set the static parameter: the last slot of a non-null evaluator.
SetParameter(inp, parametric) ==
    IF parametric /\ inp # <<>> THEN SetInput(inp, NLP_P, Len(inp) - 1) ELSE inp

\* The writes to the inputs of H_ before H_.evaluate().
HessianInputs(H_in, parametric, x, mu) ==
    LET n_hess_in == Len(H_in) - (IF parametric THEN 1 ELSE 0)
        withX == SetInput(H_in, x, 0)
        withMu == IF n_hess_in > 1
                     THEN SetInput(withX, mu, IF n_hess_in = 4 THEN 2 ELSE 1)
                     ELSE withX
    IN  IF n_hess_in > 1
            THEN SetInput(withMu, <<One>>, IF n_hess_in = 4 THEN 3 ELSE 2)
            ELSE withMu

\* setInput(x) on slot 0 of an evaluator that may be null.
SetX(inp, x) == IF inp # <<>> THEN SetInput(inp, x, 0) ELSE inp

\* ----------------------------------------------------------------- state
VARIABLES
    nlp,            \* the NLP instance (inputs of the solver, F_, G_, QP results)
    hasCallback,    \* !callback_.isNull()
    maxiter_, maxiter_ls_, merit_memsize_,      \* options read by init()
    hessian_approximation, regularize, lbfgs_memory_,
    parametric_,
    pc,             \* position in evaluate
    it_counter, sigma_, x_, x_old_, x_cand_, mu_, mu_x_, gLag_,
    p, fk, gk, merit_mem,
    qp_in,          \* input slots LBX, UBX, LBA, UBA of qp_solver_, and the
                    \* slots the driver wrote for the latest solve
    mu_qp, mu_x_qp, \* outputs QP_LAMBDA_A, QP_LAMBDA_X of qp_solver_
    L1dir, t, ls_counter, fk_cand, gk_cand, L1merit_cand,
    ls_accepted,    \* whether the latest trial passed the acceptance test
    pr_inf, gLag_norm1,
    log_line,       \* the line printed for the current iteration
    cb_ret,         \* callback_.output(0).at(0) of the current iteration
    message,        \* the final "SQP: ..." line, "" while running
    output,         \* output slots of the solver
    iter_count,     \* stats_["iter_count"]
    qp_solves,      \* number of qp_solver_.evaluate() calls so far
    Bk,             \* the Hessian (approximation) passed as QP_H
    H_output,       \* H_.output() of the latest H_.evaluate()
    gLag_old_bfgs,
    sk, yk, qk, omega,      \* locals of the latest limited-memory update
    F_input, G_input, H_input, J_input  \* input slots of the evaluators

vars == <<nlp, hasCallback, maxiter_, maxiter_ls_, merit_memsize_, pc,
          it_counter, sigma_, x_, x_old_, x_cand_, mu_, mu_x_, gLag_,
          p, fk, gk, merit_mem, qp_in, mu_qp, mu_x_qp,
          L1dir, t, ls_counter, fk_cand, gk_cand, L1merit_cand, ls_accepted,
          pr_inf, gLag_norm1, log_line, cb_ret, message, output, iter_count,
          qp_solves, hessian_approximation, regularize, lbfgs_memory_,
          parametric_, Bk, H_output, gLag_old_bfgs, sk, yk, qk, omega,
          F_input, G_input, H_input, J_input>>

config == <<nlp, hasCallback, maxiter_, maxiter_ls_, merit_memsize_,
            hessian_approximation, regularize, lbfgs_memory_, parametric_>>
iterate == <<x_, x_old_, mu_, mu_x_, fk, gk>>
qpvars == <<qp_in, mu_qp, mu_x_qp, p, qp_solves>>
lsvars == <<L1dir, t, ls_counter, x_cand_, fk_cand, gk_cand, L1merit_cand, ls_accepted>>
kktvars == <<pr_inf, gLag_norm1, log_line>>
endvars == <<message, output, iter_count>>
hessvars == <<Bk, H_output, gLag_old_bfgs, sk, yk, qk, omega>>
slots == <<F_input, G_input, H_input, J_input>>

\* k unset input slots.
Unset(k) == [i \in 1..k |-> <<>>]

\* After init(): vectors resized, nothing evaluated yet.  nH is the number
\* of inputs of H_ (0 for a null function); F_, G_ and J_ take x and, in a
\* parametric NLP, the parameter.
Constructed(nH) ==
    /\ sk = <<>> /\ yk = <<>> /\ qk = <<>> /\ omega = One
    /\ F_input = Unset(IF parametric_ THEN 2 ELSE 1)
    /\ G_input = IF nlp.G_isNull THEN <<>> ELSE Unset(IF parametric_ THEN 2 ELSE 1)
    /\ J_input = IF nlp.G_isNull THEN <<>> ELSE Unset(IF parametric_ THEN 2 ELSE 1)
    /\ H_input = Unset(nH)
    /\ it_counter = 0
    /\ sigma_ = Zero
    /\ x_cand_ = ZeroVec(nlp.n_)
    /\ mu_ = ZeroVec(nlp.m_) /\ mu_x_ = ZeroVec(nlp.n_)
    /\ p = <<>> /\ fk = Zero /\ gk = <<>> /\ merit_mem = <<>>
    /\ qp_in = [LBX |-> ZeroVec(nlp.n_), UBX |-> ZeroVec(nlp.n_),
                LBA |-> ZeroVec(nlp.m_), UBA |-> ZeroVec(nlp.m_), written |-> {}]
    /\ mu_qp = ZeroVec(nlp.m_) /\ mu_x_qp = ZeroVec(nlp.n_)
    /\ L1dir = Zero /\ t = One /\ ls_counter = 0
    /\ fk_cand = Zero /\ gk_cand = <<>> /\ L1merit_cand = Zero
    /\ ls_accepted = FALSE
    /\ pr_inf = Zero /\ gLag_norm1 = Zero /\ log_line = <<>>
    /\ cb_ret = FALSE /\ message = ""
    /\ output = [COST |-> Zero, X_OPT |-> ZeroVec(nlp.n_), LAMBDA_G |-> ZeroVec(nlp.m_),
                 LAMBDA_X |-> ZeroVec(nlp.n_), G |-> ZeroVec(nlp.m_)]
    /\ iter_count = 0
    /\ qp_solves = 0

\* Entry of evaluate: the iterates and the Hessian hold nothing yet.
Entry ==
    /\ pc = "Init"
    /\ x_ = ZeroVec(nlp.n_) /\ x_old_ = ZeroVec(nlp.n_) /\ gLag_ = ZeroVec(nlp.n_)
    /\ Bk = <<>> /\ H_output = <<>> /\ gLag_old_bfgs = <<>>

\* The defaults of the Hessian options: limited-memory, lbfgs_memory 10,
\* no regularization; the NLP is not parametric.
HessianDefaults ==
    /\ hessian_approximation = "limited-memory"
    /\ regularize = FALSE
    /\ lbfgs_memory_ = 10
    /\ parametric_ = FALSE

\* The runs of the main loop under the default Hessian options.
Init ==
    /\ nlp \in Problems
    /\ hasCallback \in BOOLEAN
    /\ maxiter_ \in 0..MaxIter
    /\ maxiter_ls_ \in 1..MaxLs
    /\ merit_memsize_ \in 1..MaxMem
    /\ HessianDefaults
    /\ Constructed(0)
    /\ Entry

\* evaluate, up to the main loop: the static parameter, initial guess, zero
\* multipliers, infinite QP bounds, the initial Hessian approximation, empty
\* merit memory, it_counter = 1, sigma_ = 0.
Start ==
    /\ pc = "Init"
    /\ F_input' = SetParameter(F_input, parametric_)
    /\ G_input' = SetParameter(G_input, parametric_)
    /\ H_input' = SetParameter(H_input, parametric_)
    /\ J_input' = SetParameter(J_input, parametric_)
    /\ Bk' = IF hessian_approximation = "limited-memory" THEN eye(nlp.n_) ELSE Bk
    /\ x_' = nlp.x_init
    /\ mu_' = ZeroVec(nlp.m_)
    /\ mu_x_' = ZeroVec(nlp.n_)
    /\ gLag_' = ZeroVec(nlp.n_)
    /\ qp_in' = [qp_in EXCEPT !.LBX = [i \in 1..nlp.n_ |-> MinusInf],
                              !.UBX = [i \in 1..nlp.n_ |-> PlusInf],
                              !.written = {"LBX", "UBX"}]
    /\ merit_mem' = <<>>
    /\ it_counter' = 1
    /\ sigma_' = Zero
    /\ pc' = "EvaluatingKthPoint"
    /\ UNCHANGED <<config, x_old_, fk, gk, mu_qp, mu_x_qp, p, qp_solves, lsvars,
                   kktvars, cb_ret, endvars, H_output, gLag_old_bfgs, sk, yk, qk,
                   omega>>

\* The exact Hessian (regularized on request), the constraint function and
\* its Jacobian (when m_ > 0) and the objective at the linearization point.
EvalPoint ==
    /\ pc = "EvaluatingKthPoint"
    /\ IF hessian_approximation = "exact"
          THEN /\ H_input' = HessianInputs(H_input, parametric_, x_, mu_)
               /\ H_output' = H_value(nlp, x_, mu_)
               /\ Bk' = IF regularize THEN Regularize(H_value(nlp, x_, mu_))
                                      ELSE H_value(nlp, x_, mu_)
          ELSE UNCHANGED <<H_input, H_output, Bk>>
    /\ G_input' = IF nlp.m_ > 0 THEN SetX(G_input, x_) ELSE G_input
    /\ J_input' = IF nlp.m_ > 0 THEN SetX(J_input, x_) ELSE J_input
    /\ F_input' = SetX(F_input, x_)
    /\ gk' = IF nlp.m_ > 0 THEN G_value(nlp, x_) ELSE gk
    /\ fk' = F_value(nlp, x_)
    /\ pc' = "QPSolving"
    /\ UNCHANGED <<config, it_counter, sigma_, x_, x_old_, mu_, mu_x_, gLag_,
                   merit_mem, qpvars, lsvars, kktvars, cb_ret, endvars,
                   gLag_old_bfgs, sk, yk, qk, omega>>

\* Pass the data to the QP solver, solve, read the primal and dual solution.
QPSolve ==
    /\ pc = "QPSolving"
    /\ qp_in' = [LBX |-> ShiftBounds(nlp.lbx, x_),
                 UBX |-> ShiftBounds(nlp.ubx, x_),
                 LBA |-> IF nlp.m_ > 0 THEN ShiftBounds(nlp.lbg, gk) ELSE qp_in.LBA,
                 UBA |-> IF nlp.m_ > 0 THEN ShiftBounds(nlp.ubg, gk) ELSE qp_in.UBA,
                 written |-> QPSlotsWritten(nlp.m_, p)]
    /\ \E sol \in nlp.qp_out :
          /\ p' = sol[1]
          /\ mu_qp' = sol[2]
          /\ mu_x_qp' = sol[3]
    /\ qp_solves' = qp_solves + 1
    /\ pc' = "MeritUpdating"
    /\ UNCHANGED <<config, it_counter, sigma_, iterate, gLag_, merit_mem, lsvars,
                   kktvars, cb_ret, endvars, hessvars, slots>>

\* Penalty parameter, L1 merit of the current iterate into the merit memory,
\* default stepsize.
MeritUpdate ==
    /\ pc = "MeritUpdating"
    /\ LET sigma == PenaltyUpdate(sigma_, mu_qp)
           l1_infeas == L1Infeas(nlp.lbg, nlp.ubg, gk)
           L1merit == RAdd(fk, RMul(sigma, l1_infeas))
       IN  /\ sigma_' = sigma
           /\ L1dir' = RSub(F_fwdSens(nlp, x_, p), RMul(sigma, l1_infeas))
           /\ merit_mem' = MeritPush(merit_mem, L1merit, merit_memsize_)
    /\ t' = One
    /\ L1merit_cand' = Zero
    /\ ls_counter' = 1
    /\ pc' = "LineSearching"
    /\ UNCHANGED <<config, it_counter, iterate, gLag_, qpvars, x_cand_, fk_cand,
                   gk_cand, ls_accepted, kktvars, cb_ret, endvars, hessvars, slots>>

\* One pass of the line-search loop.
LineSearchTrial ==
    /\ pc = "LineSearching"
    /\ LET cand == Candidate(x_, t, p)
           g_cand == IF ~nlp.G_isNull THEN G_value(nlp, cand) ELSE gk_cand
           l1_infeas == IF ~nlp.G_isNull THEN L1Infeas(nlp.lbg, nlp.ubg, g_cand) ELSE Zero
           merit_cand == RAdd(F_value(nlp, cand), RMul(sigma_, l1_infeas))
           accept == ArmijoAccept(merit_cand, MeritMax(merit_mem), t, L1dir)
       IN  /\ x_cand_' = cand
           /\ F_input' = SetX(F_input, cand)
           /\ G_input' = SetX(G_input, cand)
           /\ fk_cand' = F_value(nlp, cand)
           /\ gk_cand' = g_cand
           /\ L1merit_cand' = merit_cand
           /\ ls_accepted' = accept
           /\ t' = IF accept THEN t ELSE RMul(beta_, t)
           /\ pc' = LsNext(accept, ls_counter, maxiter_ls_)
           /\ ls_counter' = IF LsNext(accept, ls_counter, maxiter_ls_) = "LineSearching"
                               THEN ls_counter + 1 ELSE ls_counter
    /\ UNCHANGED <<config, it_counter, sigma_, iterate, gLag_, merit_mem, qpvars,
                   L1dir, kktvars, cb_ret, endvars, hessvars, H_input, J_input>>

\* Candidate accepted: new iterate and multipliers.
Commit ==
    /\ pc = "Committing"
    /\ x_old_' = x_
    /\ x_' = x_cand_
    /\ fk' = fk_cand
    /\ gk' = gk_cand
    /\ mu_' = Blend(t, mu_qp, mu_)
    /\ mu_x_' = Blend(t, mu_x_qp, mu_x_)
    /\ pc' = "HessianUpdating"
    /\ UNCHANGED <<config, it_counter, sigma_, gLag_, merit_mem, qpvars, lsvars,
                   kktvars, cb_ret, endvars, hessvars, slots>>

\* Gradient of the Lagrangian at the new iterate and at the previous one,
\* and the update of the Hessian approximation in limited-memory mode.
HessianUpdate ==
    /\ pc = "HessianUpdating"
    /\ LET gradF == F_adjSens(nlp, x_)
           withG == IF nlp.m_ > 0
                       THEN [i \in 1..nlp.n_ |-> RAdd(gradF[i], G_adjSens(nlp, mu_)[i])]
                       ELSE gradF
       IN  gLag_' = [i \in 1..nlp.n_ |-> RAdd(withG[i], mu_x_[i])]
    /\ F_input' = SetX(F_input, x_old_)
    /\ G_input' = SetX(G_input, x_old_)
    /\ gLag_old_bfgs' = GradLagOld(nlp, x_old_, mu_, mu_x_)
    /\ IF hessian_approximation = "limited-memory"
          THEN LET upd == Lbfgs(Bk, it_counter, lbfgs_memory_, x_, x_old_,
                                gLag_', gLag_old_bfgs')
               IN  /\ Bk' = upd.Bk
                   /\ sk' = upd.sk
                   /\ yk' = upd.yk
                   /\ qk' = upd.qk
                   /\ omega' = upd.omega
          ELSE UNCHANGED <<Bk, sk, yk, qk, omega>>
    /\ pc' = "Checking"
    /\ UNCHANGED <<config, it_counter, sigma_, iterate, merit_mem, qpvars, lsvars,
                   kktvars, cb_ret, endvars, H_output, H_input, J_input>>

\* Optimality criteria and the log line of the iteration.
KKTCheck ==
    /\ pc = "Checking"
    /\ LET pr == PrInf(nlp.G_isNull, nlp.lbg, nlp.ubg, gk_cand, nlp.lbx, nlp.ubx, x_)
           du == Norm1(gLag_)
       IN  /\ pr_inf' = pr
           /\ gLag_norm1' = du
           /\ log_line' = [it |-> it_counter, obj |-> fk_cand, pr_inf |-> pr,
                           du_inf |-> du, corr_norm |-> Norm1(p), stepsize |-> t,
                           ls_trials |-> ls_counter,
                           ls_success |-> LsSuccess(ls_counter, maxiter_ls_)]
    /\ pc' = "Callback"
    /\ UNCHANGED <<config, it_counter, sigma_, iterate, gLag_, merit_mem, qpvars,
                   lsvars, cb_ret, endvars, hessvars, slots>>

\* Call the callback function if present.
RunCallback ==
    /\ pc = "Callback"
    /\ cb_ret' \in (IF hasCallback THEN BOOLEAN ELSE {FALSE})
    /\ pc' = "Deciding"
    /\ UNCHANGED <<config, it_counter, sigma_, iterate, gLag_, merit_mem, qpvars,
                   lsvars, kktvars, endvars, hessvars, slots>>

\* Leaving the main loop: outputs and statistics.
Finish(msg) ==
    /\ message' = msg
    /\ output' = [COST |-> fk, X_OPT |-> x_, LAMBDA_G |-> mu_, LAMBDA_X |-> mu_x_,
                  G |-> gk]
    /\ iter_count' = SaveStats(it_counter)
    /\ pc' = "Terminated"
    /\ UNCHANGED <<config, it_counter, sigma_, iterate, gLag_, merit_mem, qpvars,
                   lsvars, kktvars, cb_ret, hessvars, slots>>

Verdict == Decide(cb_ret, pr_inf, gLag_norm1, it_counter, maxiter_)

CallbackAbort ==
    /\ pc = "Deciding"
    /\ Verdict = "aborted by callback"
    /\ Finish(Verdict)

Converged ==
    /\ pc = "Deciding"
    /\ Verdict = "Convergence achieved"
    /\ Finish(Verdict)

MaxIterReached ==
    /\ pc = "Deciding"
    /\ Verdict = "Maximum number of iterations reached"
    /\ Finish(Verdict)

\* ++it_counter and the next pass of the main loop.
NextIteration ==
    /\ pc = "Deciding"
    /\ Verdict = "continue"
    /\ it_counter < MaxIter
    /\ it_counter' = it_counter + 1
    /\ pc' = "EvaluatingKthPoint"
    /\ UNCHANGED <<config, sigma_, iterate, gLag_, merit_mem, qpvars, lsvars,
                   kktvars, cb_ret, endvars, hessvars, slots>>

Next ==
    \/ Start
    \/ EvalPoint
    \/ QPSolve
    \/ MeritUpdate
    \/ LineSearchTrial
    \/ Commit
    \/ HessianUpdate
    \/ KKTCheck
    \/ RunCallback
    \/ CallbackAbort
    \/ Converged
    \/ MaxIterReached
    \/ NextIteration

Spec == Init /\ [][Next]_vars

\* ------------------------------------------ runs under the Hessian options
\* Instances with two variables: the equality-constrained instance above,
\* where Bk gets off-diagonal entries, and an indefinite objective
\* x1^2 - x2^2 - 2*x1 without constraint function, with steps along the axes.
HessianProblems ==
    {q \in Problems : q.name = "equality"} \cup {
    [name |-> "saddle", n_ |-> 2, m_ |-> 0, G_isNull |-> TRUE,
     lbx |-> IntVec(<<-4, -4>>), ubx |-> IntVec(<<4, 4>>),
     lbg |-> <<>>, ubg |-> <<>>, x_init |-> IntVec(<<0, 0>>),
     qf |-> <<1, -1>>, bf |-> <<-2, 0>>, Ag |-> <<>>, dg |-> <<>>,
     qp_out |-> { <<IntVec(<<1, 0>>), <<>>, IntVec(<<0, 0>>)>>,
                  <<IntVec(<<0, 1>>), <<>>, IntVec(<<0, 0>>)>> }]
  }

\* The numbers of inputs of H_ that are explored in exact mode: x alone,
\* (x, mu, sigma) and four inputs, each followed by the parameter in a
\* parametric NLP, and x with one more input before the parameter.
HessianArities(parametric) == IF parametric THEN 2..5 ELSE {1, 3, 4}

\* Both values of hessian_approximation: limited-memory with lbfgs_memory
\* from 1 to MaxLbfgs, and exact with and without regularization.
InitHessian ==
    /\ nlp \in HessianProblems
    /\ hasCallback \in BOOLEAN
    /\ maxiter_ = MaxIter
    /\ maxiter_ls_ = MaxLs
    /\ merit_memsize_ = MaxMem
    /\ parametric_ \in BOOLEAN
    /\ \/ /\ hessian_approximation = "limited-memory"
          /\ regularize = FALSE
          /\ lbfgs_memory_ \in 1..MaxLbfgs
          /\ Constructed(0)
       \/ /\ hessian_approximation = "exact"
          /\ regularize \in BOOLEAN
          /\ lbfgs_memory_ = 10
          /\ \E nH \in HessianArities(parametric_) : Constructed(nH)
    /\ Entry

SpecHessian == InitHessian /\ [][Next]_vars

\* ------------------------------------------- the limited-memory update alone
\* The multiples of 1/2 from lo/2 to hi/2.
Halves(lo, hi) == {Rat(k, 2) : k \in lo..hi}

\* A state at the limited-memory branch of some iteration of a problem with
\* one variable: a step s, a change y of the gradient of the Lagrangian and
\* a positive B, so that s'y = s*y ranges over both signs and s'Bs = s*s*B
\* is positive.
InitDamping ==
    /\ nlp \in {q \in Problems : q.name = "unconstrained"}
    /\ hasCallback = FALSE /\ maxiter_ = MaxIter /\ maxiter_ls_ = MaxLs
    /\ merit_memsize_ = MaxMem
    /\ HessianDefaults
    /\ Constructed(0)
    /\ pc = "Damping"
    /\ x_old_ = ZeroVec(1)
    /\ x_ \in {<<R(1)>>, <<R(-2)>>}
    /\ gLag_old_bfgs = ZeroVec(1)
    /\ \E y \in Halves(-MaxCurv, MaxCurv) : gLag_ = <<y>>
    /\ \E b \in Halves(1, MaxCurv) : Bk = << <<b>> >>
    /\ H_output = <<>>

\* The limited-memory branch applied to the drawn s, y and B.
Damp ==
    /\ pc = "Damping"
    /\ LET upd == Lbfgs(Bk, it_counter, lbfgs_memory_, x_, x_old_, gLag_, gLag_old_bfgs)
       IN  /\ Bk' = upd.Bk
           /\ sk' = upd.sk
           /\ yk' = upd.yk
           /\ qk' = upd.qk
           /\ omega' = upd.omega
    /\ pc' = "Damped"
    /\ UNCHANGED <<config, it_counter, sigma_, iterate, gLag_, merit_mem, qpvars,
                   lsvars, kktvars, cb_ret, endvars, H_output, gLag_old_bfgs, slots>>

SpecDamping == InitDamping /\ [][Damp]_vars

\* ------------------------------------------------ the regularization alone
\* The 2x2 matrices with integer entries from -k to k.
Matrices(k) ==
    {<< <<R(a), R(b)>>, <<R(c), R(d)>> >> : a \in -k..k, b \in -k..k, c \in -k..k, d \in -k..k}

\* A state in exact mode with regularize on, right after Bk = H_.output(),
\* for a problem with two variables and any Hessian H_ may have returned.
InitRegularizing ==
    /\ nlp \in {q \in Problems : q.name = "equality"}
    /\ hasCallback = FALSE /\ maxiter_ = MaxIter /\ maxiter_ls_ = MaxLs
    /\ merit_memsize_ = MaxMem
    /\ hessian_approximation = "exact"
    /\ regularize = TRUE
    /\ lbfgs_memory_ = 10
    /\ parametric_ = FALSE
    /\ Constructed(1)
    /\ pc = "Regularizing"
    /\ x_ = nlp.x_init /\ x_old_ = ZeroVec(nlp.n_) /\ gLag_ = ZeroVec(nlp.n_)
    /\ gLag_old_bfgs = <<>>
    /\ H_output \in Matrices(MaxEntry)
    /\ Bk = H_output

\* The regularization of Bk.
RegularizeStep ==
    /\ pc = "Regularizing"
    /\ regularize
    /\ Bk' = Regularize(Bk)
    /\ pc' = "Regularized"
    /\ UNCHANGED <<config, it_counter, sigma_, iterate, gLag_, merit_mem, qpvars,
                   lsvars, kktvars, cb_ret, endvars, H_output, gLag_old_bfgs,
                   sk, yk, qk, omega, slots>>

SpecRegularizing == InitRegularizing /\ [][RegularizeStep]_vars

\* ================================================================ claims
TolerancesMet == RLt(pr_inf, tol_pr_) /\ RLt(gLag_norm1, tol_du_)
Messages == {"aborted by callback", "Convergence achieved",
             "Maximum number of iterations reached"}

\* C1: the main loop is left only through callback abort, convergence or the
\* iteration cap, each under its own condition; a line-search trial, also one
\* that exhausts maxiter_ls, only leads to another trial or to the commit, and
\* the commit is followed by the Hessian stage, the KKT check, the callback
\* and the three exit tests.
C1_ThreeExits ==
    [][ /\ (pc # "Terminated" /\ pc' = "Terminated") =>
              /\ pc = "Deciding"
              /\ message' \in Messages
              /\ (message' = "aborted by callback" => cb_ret)
              /\ (message' = "Convergence achieved" => TolerancesMet)
              /\ (message' = "Maximum number of iterations reached"
                     => it_counter = maxiter_)
        /\ (pc = "LineSearching" => pc' \in {"LineSearching", "Committing"})
        /\ (pc = "Committing" =>
              /\ pc' = "HessianUpdating"
              /\ x_' = x_cand_
              /\ mu_' = [i \in 1..nlp.m_ |->
                            RAdd(RMul(t, mu_qp[i]), RMul(RSub(One, t), mu_[i]))])
        /\ (pc = "HessianUpdating" => pc' = "Checking")
        /\ (pc = "Checking" => pc' = "Callback")
        /\ (pc = "Callback" => pc' = "Deciding")
      ]_vars

\* C1 witness: an iteration whose line search exhausted its budget without
\* acceptance was committed and checked, and the run went on to iteration 2.
C1_Witness ==
    /\ maxiter_ >= 2
    /\ pc = "EvaluatingKthPoint"
    /\ it_counter = 2
    /\ ~ls_accepted
    /\ ls_counter = maxiter_ls_
    /\ x_ = x_cand_

\* C2 (as claimed): the number of outer iterations performed never exceeds
\* maxiter, and the reported iter_count is at most maxiter.
C2_IterationsAtMostMaxiter ==
    /\ qp_solves <= maxiter_
    /\ (pc = "Terminated" => iter_count <= maxiter_)

\* C3: on every termination path iter_count is the number of QP solves made,
\* and the outputs are the committed state of that last iteration; a truthy
\* callback result ends the run at once with the abort message.
C3_IterCountAndOutputs ==
    /\ [](pc = "Terminated" =>
            /\ iter_count = qp_solves
            /\ iter_count = log_line.it
            /\ output.COST = fk_cand /\ output.X_OPT = x_cand_
            /\ output.G = gk_cand
            /\ output.LAMBDA_G = mu_ /\ output.LAMBDA_X = mu_x_)
    /\ [][ (pc = "Deciding" /\ cb_ret) =>
              /\ pc' = "Terminated"
              /\ message' = "aborted by callback"
              /\ iter_count' = qp_solves ]_vars

\* C3 witness: the callback returned truthy at the end of iteration 3 of a
\* run capped at 3 iterations.
C3_Witness ==
    /\ maxiter_ = 3
    /\ pc = "Terminated"
    /\ message = "aborted by callback"
    /\ qp_solves = 3
    /\ iter_count = 3

\* C4 (as claimed): the run ends converged exactly when both tolerances are
\* met at the end of the iteration, whatever the callback returned.  Stated
\* for runs with a cap of at least one iteration.
C4_ConvergedIffTolerances ==
    (pc = "Terminated" /\ maxiter_ >= 1) => (message = "Convergence achieved" <=> TolerancesMet)

\* C4 (amended): the run ends converged exactly when both tolerances are met
\* and the callback did not return truthy in that iteration, also when the
\* counter equals maxiter; with both tolerances met and a truthy callback
\* result the run ends aborted.
C4_ConvergedUnlessAborted ==
    /\ [](pc = "Terminated" =>
            /\ (message = "Convergence achieved" <=> (TolerancesMet /\ ~cb_ret))
            /\ (message = "aborted by callback" <=> cb_ret))
    /\ [][ (pc = "Deciding" /\ TolerancesMet) =>
              /\ pc' = "Terminated"
              /\ message' = IF cb_ret THEN "aborted by callback"
                                      ELSE "Convergence achieved" ]_vars

\* C4 witness: convergence in the iteration in which the counter equals
\* maxiter, with a callback present that returned false.
C4_Witness ==
    /\ pc = "Terminated"
    /\ message = "Convergence achieved"
    /\ it_counter = maxiter_
    /\ hasCallback

\* C5 (as claimed): with maxiter_ls = 1 the committed point is x + 1*p and the
\* stepsize used for the multipliers and printed in the log is 1.  Stated for
\* runs with a cap of at least one iteration.
C5_UnitStepWhenBudgetOne ==
    (maxiter_ls_ = 1 /\ maxiter_ >= 1 /\ pc = "Callback") =>
        /\ x_ = [i \in 1..nlp.n_ |-> RAdd(x_old_[i], p[i])]
        /\ t = One
        /\ log_line.stepsize = One
        /\ (it_counter = 1 => (mu_ = mu_qp /\ mu_x_ = mu_x_qp))

\* C6 (as claimed): the log line carries 'F' exactly when the line search
\* ended without a candidate passing the acceptance test.  Stated for runs
\* with a cap of at least one iteration.
C6_FlagIffNotAccepted ==
    (pc = "Callback" /\ maxiter_ >= 1) => (log_line.ls_success = "F" <=> ~ls_accepted)

\* The largest element of a nonempty sequence of reals.
SeqMax(s) == CHOOSE v \in {s[i] : i \in 1..Len(s)} : \A i \in 1..Len(s) : RLe(s[i], v)

\* C7: the merit window never holds more than merit_memory values; a step
\* changes it only by appending the merit of the current iterate at the back,
\* dropping the front value when the window was full; every line-search trial
\* accepts exactly when phi(x_cand) <= max(window) + t*c1*D1.  The window
\* {10,12,8,9} has reference 12, against which 11.5 is accepted at t*D1 = 0.
C7_MeritWindowFifo ==
    /\ [](Len(merit_mem) <= merit_memsize_)
    /\ [][ /\ (pc = "MeritUpdating" =>
                 LET v == RAdd(fk, RMul(sigma_', L1Infeas(nlp.lbg, nlp.ubg, gk)))
                 IN  merit_mem' = IF Len(merit_mem) < merit_memsize_
                                     THEN merit_mem \o <<v>>
                                     ELSE Tail(merit_mem) \o <<v>>)
           /\ (pc # "MeritUpdating" => merit_mem' = merit_mem)
           /\ (pc = "LineSearching" =>
                 /\ merit_mem # <<>>
                 /\ L1merit_cand' = RAdd(F_value(nlp, x_cand_'),
                        RMul(sigma_, L1Infeas(nlp.lbg, nlp.ubg, G_value(nlp, x_cand_'))))
                 /\ (ls_accepted' <=>
                       RLe(L1merit_cand',
                           RAdd(SeqMax(merit_mem), RMul(t, RMul(c1_, L1dir))))))
         ]_vars
    /\ MeritMax(IntVec(<<10, 12, 8, 9>>)) = R(12)
    /\ ArmijoAccept(<<23, 2>>, MeritMax(IntVec(<<10, 12, 8, 9>>)), One, Zero)

\* C7 witness: the window is full and has evicted a value, its maximum is not
\* its newest value, and a candidate with a larger merit than the newest
\* value was accepted against that maximum.
C7_Witness ==
    /\ maxiter_ >= 3
    /\ pc = "Committing"
    /\ ls_accepted
    /\ qp_solves > merit_memsize_
    /\ Len(merit_mem) = merit_memsize_
    /\ merit_memsize_ = 2
    /\ RLt(merit_mem[2], merit_mem[1])
    /\ RLt(merit_mem[2], L1merit_cand)

\* C8: sigma_ is 0 when the main loop starts; no step decreases it; it only
\* changes in the penalty update, to 1.01*|mu_qp[j]| of a constraint
\* multiplier larger in magnitude than the old value; after the update it is
\* at least |mu_qp[j]| for every j; without constraints it stays 0 whatever
\* the bound multipliers are.
C8_SigmaMonotone ==
    /\ []((pc = "EvaluatingKthPoint" /\ it_counter = 1) => sigma_ = Zero)
    /\ [](pc # "MeritUpdating" => \A j \in 1..nlp.m_ : RLe(fabs(mu_qp[j]), sigma_))
    /\ [](nlp.m_ = 0 => sigma_ = Zero)
    /\ [][ /\ RLe(sigma_, sigma_')
           /\ (sigma_' # sigma_ =>
                 /\ pc = "MeritUpdating"
                 /\ \E j \in 1..nlp.m_ :
                       /\ sigma_' = RMul(<<101, 100>>, fabs(mu_qp[j]))
                       /\ RLt(sigma_, fabs(mu_qp[j])))
         ]_vars

\* C8 witness: in a later iteration the QP multipliers are smaller than those
\* of an earlier one and sigma_ keeps the earlier, larger value 3.03.
C8_Witness ==
    /\ maxiter_ >= 2
    /\ pc = "LineSearching"
    /\ it_counter >= 2
    /\ nlp.m_ = 2
    /\ mu_qp = IntVec(<<-2, 1>>)
    /\ sigma_ = <<303, 100>>

\* C9: right after every QP solve the solver's LBX and UBX are lbx - x and
\* ubx - x for the linearization point x, with m > 0 its LBA and UBA are
\* lbg - g(x) and ubg - g(x), and with m = 0 the driver wrote none of A, LBA
\* and UBA.
C9_ShiftedQPBounds ==
    pc = "MeritUpdating" =>
        /\ Len(qp_in.LBX) = nlp.n_ /\ Len(qp_in.UBX) = nlp.n_
        /\ \A i \in 1..nlp.n_ :
              /\ RAdd(qp_in.LBX[i], x_[i]) = nlp.lbx[i]
              /\ RAdd(qp_in.UBX[i], x_[i]) = nlp.ubx[i]
        /\ {"LBX", "UBX"} \subseteq qp_in.written
        /\ (nlp.m_ > 0 =>
              /\ Len(qp_in.LBA) = nlp.m_ /\ Len(qp_in.UBA) = nlp.m_
              /\ \A j \in 1..nlp.m_ :
                    /\ RAdd(qp_in.LBA[j], G_value(nlp, x_)[j]) = nlp.lbg[j]
                    /\ RAdd(qp_in.UBA[j], G_value(nlp, x_)[j]) = nlp.ubg[j]
              /\ {"A", "LBA", "UBA"} \subseteq qp_in.written)
        /\ (nlp.m_ = 0 => qp_in.written \cap {"A", "LBA", "UBA"} = {})

\* C9 witness: a QP solve of a constrained problem at a point other than the
\* origin, where the shifted bounds differ from the bounds of the NLP.
C9_Witness ==
    /\ maxiter_ >= 2
    /\ pc = "MeritUpdating"
    /\ it_counter >= 2
    /\ nlp.m_ > 0
    /\ x_ # ZeroVec(nlp.n_)
    /\ qp_in.LBX # nlp.lbx
    /\ qp_in.LBA # nlp.lbg

\* C10 (as claimed): without a constraint function pr_inf is the sum of the
\* bound violations of the new x, and a run that ends converged has bound
\* violations below tol_pr.  Stated for iterations whose QP step respects the
\* bounds LBX <= p <= UBX handed to the QP solver.
C10_PrInfCountsBoundViolations ==
    (/\ nlp.G_isNull /\ maxiter_ >= 1
     /\ pc \in {"Callback", "Deciding", "Terminated"}
     /\ \A i \in 1..nlp.n_ : RLe(qp_in.LBX[i], p[i]) /\ RLe(p[i], qp_in.UBX[i])) =>
        /\ pr_inf = PrInfX(nlp.lbx, nlp.ubx, x_)
        /\ (message = "Convergence achieved" =>
               RLt(PrInfX(nlp.lbx, nlp.ubx, x_), tol_pr_))

\* The curvature pair of the latest limited-memory update: s'y before the
\* damping, s'Bs, and s'y after the damping (the denominator of theta).
Updated == sk # <<>>
sy_raw == InnerProd(VecSub(gLag_, gLag_old_bfgs), sk)
sBs == InnerProd(sk, qk)
sy_damped == InnerProd(sk, yk)

\* C11 as stated: after a limited-memory update with s'Bs > 0, omega lies
\* in [0.8, 1], the damped y has s'y >= 0.2*s'Bs > 0, and omega = 1 exactly
\* when the undamped s'y >= 0.2*s'Bs.
C11_OmegaAtLeastFourFifths ==
    (Updated /\ RGt(sBs, Zero)) =>
        /\ RLe(<<4, 5>>, omega) /\ RLe(omega, One)
        /\ RLe(RMul(<<1, 5>>, sBs), sy_damped) /\ RGt(sy_damped, Zero)
        /\ (omega = One <=> RLe(RMul(<<1, 5>>, sBs), sy_raw))

\* C11 amended: after a limited-memory update with s'Bs > 0, omega lies in
\* (0, 1], it is at least 0.8 exactly when the undamped s'y >= 0, the damped
\* y has s'y >= 0.2*s'Bs > 0 (with equality when the update was damped), and
\* omega = 1 exactly when the undamped s'y >= 0.2*s'Bs.
C11_OmegaInUnitInterval ==
    (Updated /\ RGt(sBs, Zero)) =>
        /\ RGt(omega, Zero) /\ RLe(omega, One)
        /\ (RLe(<<4, 5>>, omega) <=> RLe(Zero, sy_raw))
        /\ RLe(RMul(<<1, 5>>, sBs), sy_damped) /\ RGt(sy_damped, Zero)
        /\ (omega # One => sy_damped = RMul(<<1, 5>>, sBs))
        /\ (omega = One <=> RLe(RMul(<<1, 5>>, sBs), sy_raw))

\* A damped update of a pair with negative curvature: s'y = -s'Bs.
C11_Witness ==
    /\ pc = "Damped"
    /\ RGt(sBs, Zero)
    /\ sy_raw = RNeg(sBs)
    /\ omega = <<2, 5>>
    /\ sy_damped = RMul(<<1, 5>>, sBs)

\* k is a positive multiple of m.
PositiveMultiple(k, m) == \E j \in 1..k : k = j * m

\* B + y*y'/(s'y) - q*q'/(q's)
Rank2(B, s, y, q) ==
    [i \in 1..Len(B) |-> [j \in 1..Len(B) |->
        RSub(RAdd(B[i][j], RDiv(RMul(y[i], y[j]), InnerProd(s, y))),
             RDiv(RMul(q[i], q[j]), InnerProd(q, s)))]]

\* C12: in limited-memory mode Bk is the identity when the first iteration
\* starts; the update of iteration it_counter computes q = B0*s and the rank-2
\* update from B0, where B0 is diag(diag(Bk)) when it_counter is a positive
\* multiple of lbfgs_memory and the unmodified Bk otherwise; in exact mode Bk
\* is only ever assigned the (regularized) output of H_ at the start of an
\* iteration, and no update is computed.
C12_RestartSchedule ==
    /\ [](hessian_approximation = "limited-memory" /\ pc = "EvaluatingKthPoint"
            /\ it_counter = 1 => Bk = eye(nlp.n_))
    /\ [][pc = "HessianUpdating" /\ hessian_approximation = "limited-memory" =>
            LET B0 == IF PositiveMultiple(it_counter, lbfgs_memory_)
                         THEN diagdiag(Bk) ELSE Bk
            IN  /\ sk' = VecSub(x_, x_old_)
                /\ qk' = mul(B0, sk')
                /\ Bk' = Rank2(B0, sk', yk', qk')]_vars
    /\ [][hessian_approximation = "exact" =>
            /\ UNCHANGED <<sk, yk, qk, omega>>
            /\ IF pc = "EvaluatingKthPoint"
                  THEN Bk' \in {H_output', Regularize(H_output')}
                  ELSE Bk' = Bk]_vars

\* The second update of a run with lbfgs_memory = 2, after a first update
\* that left off-diagonal entries in Bk: q is the product of the diagonal of
\* that Bk with s, and differs from the product with the full matrix.
C12_Witness ==
    /\ hessian_approximation = "limited-memory"
    /\ lbfgs_memory_ = 2 /\ it_counter = 2 /\ pc = "Checking"
    /\ nlp.name = "equality"
    /\ sk = IntVec(<<1, 0>>)
    /\ qk = <<Rat(3, 2), Zero>>
    /\ qk # mul(<< <<Rat(3, 2), Rat(1, 2)>>, <<Rat(1, 2), Rat(3, 2)>> >>, sk)

\* The sum of the absolute values of the off-diagonal entries of row i.
OffDiagonal(B, i) == RSum([j \in 1..Len(B[i]) |-> IF j = i THEN Zero ELSE fabs(B[i][j])])

\* The smallest of the values H[i][i] - r_i over the rows of H.
Tau(H) ==
    LET vals == {RSub(H[i][i], OffDiagonal(H, i)) : i \in 1..Len(H)}
    IN  CHOOSE v \in vals : \A w \in vals : RLe(v, w)

\* Bk is the regularized output of H_: in exact mode with regularize on,
\* from the regularization until the QP solver has taken Bk.
Regularized ==
    /\ hessian_approximation = "exact" /\ regularize
    /\ pc \in {"Regularized", "QPSolving", "MeritUpdating"}

\* C13: in exact mode with regularize on, the Bk handed to the QP solver
\* has B[i][i] - sum_{j # i} |B[i][j]| >= 0 in every row; with tau the
\* smallest H[i][i] - r_i of the Hessian H returned by H_, Bk is H with -tau
\* added to every diagonal entry when tau < 0, and Bk equals H when tau >= 0.
C13_GershgorinShift ==
    Regularized =>
        /\ \A i \in 1..Len(Bk) : RLe(Zero, RSub(Bk[i][i], OffDiagonal(Bk, i)))
        /\ IF RLt(Tau(H_output), Zero)
              THEN Bk = [i \in 1..Len(H_output) |-> [j \in 1..Len(H_output) |->
                            IF i = j THEN RSub(H_output[i][j], Tau(H_output))
                                     ELSE H_output[i][j]]]
              ELSE Bk = H_output

\* An indefinite Hessian with off-diagonal entries: tau = -3.
C13_Witness ==
    /\ pc = "Regularized"
    /\ H_output = << IntVec(<<1, 2>>), IntVec(<<2, -1>>) >>
    /\ Tau(H_output) = R(-3)
    /\ Bk = << IntVec(<<4, 2>>), IntVec(<<2, 2>>) >>

\* The last input slot of a non-null evaluator holds the parameter.
HoldsParameter(inp) == inp # <<>> => inp[Len(inp)] = NLP_P

\* C14: in a parametric NLP, from the start of evaluate on, the last input
\* slot of each of F_, G_, H_ and J_ holds the parameter, whatever the number
\* of inputs of H_: no write of an iteration goes to that slot.
C14_ParameterSlotKept ==
    (parametric_ /\ pc \in {"EvaluatingKthPoint", "QPSolving", "MeritUpdating",
                            "LineSearching", "Committing", "HessianUpdating",
                            "Checking", "Callback", "Deciding", "Terminated"}) =>
        /\ HoldsParameter(F_input)
        /\ HoldsParameter(G_input)
        /\ HoldsParameter(H_input)
        /\ HoldsParameter(J_input)

\* C15: when the line search hands over to the commit step, the stepsize t
\* is the one the candidate was formed and evaluated with, x_cand = x + t*p,
\* fk_cand = F(x + t*p), gk_cand = G(x + t*p); and the stepsize logged for the
\* iteration is the one that leads from the previous iterate to the new one.
\* Stated for runs with maxiter >= 1 and iterations whose QP step respects
\* the bounds LBX <= p <= UBX handed to the QP solver.
C15_StepsizeMatchesCandidate ==
    (/\ maxiter_ >= 1
     /\ p # <<>>
     /\ \A i \in 1..nlp.n_ : RLe(qp_in.LBX[i], p[i]) /\ RLe(p[i], qp_in.UBX[i])) =>
        /\ pc = "Committing" =>
              /\ x_cand_ = Candidate(x_, t, p)
              /\ fk_cand = F_value(nlp, Candidate(x_, t, p))
              /\ ~nlp.G_isNull => gk_cand = G_value(nlp, Candidate(x_, t, p))
        /\ pc = "Callback" => x_ = Candidate(x_old_, log_line.stepsize, p)

====
